---- MODULE Spec2Model ----
(***************************************************************************)
(* pick-distinct-colors (python/pick_distinct_colors.py): selection of     *)
(* select_count maximally distinct colours out of a pool, by ten           *)
(* interchangeable strategies, modelled as a state machine.                *)
(*                                                                         *)
(* One behaviour of the model is one call of an entry point                *)
(* (select_distinct_colors or pick_distinct_colors) on one request.  Every *)
(* use of the ambient random module is a nondeterministic choice.          *)
(*                                                                         *)
(* Pool indices keep the source's 0-based values; TLA+ sequences are       *)
(* 1-based, so index i of a Python list is element i + 1 of a sequence.    *)
(*                                                                         *)
(* Real arithmetic is fixed point: a colour channel, a linear RGB value    *)
(* and an XYZ value are integers in units of 1/Scale, a Lab component and  *)
(* a Delta E distance are integers in units of 1/LabScale.                 *)
(***************************************************************************)
EXTENDS Integers, Sequences, FiniteSets, TLC

VARIABLES pc, algorithm, colors, select_count, settings, lab_colors,
          lab_distances, st,
          selection, result, error

vars == <<pc, algorithm, colors, select_count, settings, lab_colors,
         lab_distances, st,
          selection, result, error>>

----------------------------------------------------------------------------
(* Fixed-point arithmetic *)

Scale == 100 * 100

LabScale == 2 * 5

Min2(a, b) == IF a < b THEN a ELSE b

Max2(a, b) == IF a > b THEN a ELSE b

\* x ** 5 for x in units of 1/Scale
Pow5(r) == (((((((r * r) \div Scale) * r) \div Scale) * r) \div Scale) * r) \div Scale

\* x ** 3 for x in units of 1/Scale
Pow3(r) == (((r * r) \div Scale) * r) \div Scale

RECURSIVE Root5(_, _, _)
\* the largest r in lo..hi with r ** 5 <= y
Root5(y, lo, hi) ==
    IF lo >= hi THEN lo
    ELSE LET mid == (lo + hi + 1) \div 2
         IN  IF Pow5(mid) <= y THEN Root5(y, mid, hi) ELSE Root5(y, lo, mid - 1)

RECURSIVE Root3(_, _, _)
\* the largest r in lo..hi with r ** 3 <= y
Root3(y, lo, hi) ==
    IF lo >= hi THEN lo
    ELSE LET mid == (lo + hi + 1) \div 2
         IN  IF Pow3(mid) <= y THEN Root3(y, mid, hi) ELSE Root3(y, lo, mid - 1)

RECURSIVE Root2(_, _, _)
\* math.sqrt on integers: the largest r in lo..hi with r * r <= y
Root2(y, lo, hi) ==
    IF lo >= hi THEN lo
    ELSE LET mid == (lo + hi + 1) \div 2
         IN  IF mid * mid <= y THEN Root2(y, mid, hi) ELSE Root2(y, lo, mid - 1)

\* x ** 2.4 = x ** 2 * (x ** 2) ** (1/5)
Pow24(x) == (((x * x) \div Scale) * Root5((x * x) \div Scale, 0, 2 * Scale)) \div Scale

----------------------------------------------------------------------------
(* Metric space: rgb_to_lab, delta_e, sort_colors *)

\* line 20: gamma correction of one normalised channel
GammaCorrect(v) ==
    IF v * 100000 > 4045 * Scale
    THEN Pow24(((v + 550) * 1000) \div 1055)
    ELSE (v * 100) \div 1292

\* line 35: the Lab nonlinearity of one normalised tristimulus value
LabF(t) ==
    IF t * 100 > 8856 * (Scale \div 10000)
    THEN Root3(t, 0, 2 * Scale)
    ELSE ((7787 * t) \div 1000) + ((16 * Scale) \div 116)

\* lines 17-22: the three channels, normalised and gamma corrected
LinearRGB(rgb) ==
    << GammaCorrect((rgb[1] * Scale) \div 255),
       GammaCorrect((rgb[2] * Scale) \div 255),
       GammaCorrect((rgb[3] * Scale) \div 255) >>

\* lines 25-32: XYZ, normalised by the illuminant D65
NormalisedXYZ(lin) ==
    << (((lin[1] * 4124 + lin[2] * 3576 + lin[3] * 1805) \div 10000) * 100000)
           \div 95047,
       (lin[1] * 2126 + lin[2] * 7152 + lin[3] * 722) \div 10000,
       (((lin[1] * 193 + lin[2] * 1192 + lin[3] * 9505) \div 10000) * 100000)
           \div 108883 >>

\* lines 35-37
LabFs(xyz) == << LabF(xyz[1]), LabF(xyz[2]), LabF(xyz[3]) >>

\* lines 39-43
LabOf(f) ==
    << ((116 * f[2] - 16 * Scale) * LabScale) \div Scale,
       (500 * (f[1] - f[2]) * LabScale) \div Scale,
       (200 * (f[2] - f[3]) * LabScale) \div Scale >>

rgb_to_lab(rgb) == LabOf(LabFs(NormalisedXYZ(LinearRGB(rgb))))

delta_e(lab_a, lab_b) ==
    LET delta_L == lab_a[1] - lab_b[1]
        delta_a == lab_a[2] - lab_b[2]
        delta_b == lab_a[3] - lab_b[3]
    IN  Root2(delta_L * delta_L + delta_a * delta_a + delta_b * delta_b,
              0, 46340)

----------------------------------------------------------------------------
(* Python values and list operations *)

\* float('inf'): above every distance and every sum of distances of the model
Inf == 2 ^ 30

None == "None"

\* None where the code holds a list of indices or None
NoList == <<0 - 1>>

Range(s) == {s[i] : i \in DOMAIN s}

\* list(range(n))
RangeList(n) == [i \in 1..Max2(n, 0) |-> i - 1]

\* the list without its element at 0-based position i (list.pop(i))
RemoveAt(s, i) == SubSeq(s, 1, i) \o SubSeq(s, i + 2, Len(s))

\* [i for i in range(n) if i not in chosen]
NotIn(n, chosen) == SelectSeq(RangeList(n), LAMBDA i : i \notin Range(chosen))

\* the list with the element at 0-based position i replaced by v
SetAt(s, i, v) == [s EXCEPT ![i + 1] = v]

\* min() of a non-empty set of numbers
Smallest(S) == CHOOSE m \in S : \A x \in S : m <= x

RECURSIVE SumSeq(_)
SumSeq(s) == IF s = <<>> THEN 0 ELSE s[1] + SumSeq(Tail(s))

RECURSIVE MinSeq(_)
\* min() of a non-empty list
MinSeq(s) == IF Len(s) = 1 THEN s[1] ELSE Min2(s[1], MinSeq(Tail(s)))

RECURSIVE LastBest(_, _, _, _)
\* Faulty variant of FirstBest: "if x >= best", the last largest score
LastBest(scores, i, best_idx, best) ==
    IF i >= Len(scores) THEN best_idx
    ELSE IF scores[i + 1] >= best
         THEN LastBest(scores, i + 1, i, scores[i + 1])
         ELSE LastBest(scores, i + 1, best_idx, best)

RECURSIVE FirstBest(_, _, _, _)
\* the loop "for i, x in enumerate(scores): if x > best: best = x; best_idx = i"
\* from position i on: the 0-based position of the first largest score
FirstBest(scores, i, best_idx, best) ==
    IF i >= Len(scores) THEN best_idx
    ELSE IF scores[i + 1] > best
         THEN FirstBest(scores, i + 1, i, scores[i + 1])
         ELSE FirstBest(scores, i + 1, best_idx, best)

\* all lists of k pairwise distinct elements of 0..n-1 (random.sample(range(n), k))
Samples(n, k) ==
    {s \in [1..k -> 0..(n - 1)] : \A i, j \in 1..k : i # j => s[i] # s[j]}

----------------------------------------------------------------------------
(* The colours of the model, distances, sort_colors and fitness *)

Red == <<255, 0, 0>>

Green == <<0, 255, 0>>

Blue == <<0, 0, 255>>

Gray == <<10, 10, 10>>

Palette == {Red, Green, Blue}

\* the three pure colors, in the order red, green, blue
RGBPool == <<Red, Green, Blue>>

\* delta_e(lab_colors[i], lab_colors[j]) for 0-based pool indices i and j.
\* delta_e is a pure function of lab_colors, which no strategy changes: its
\* values are those computed when lab_colors was
Dist(i, j) == lab_distances[i + 1][j + 1]

\* Faulty variant of KeyBefore: the key (L, a, b), without the negations
KeyAscending(x, y) ==
    \/ x[1] < y[1]
    \/ x[1] = y[1] /\ x[2] < y[2]
    \/ x[1] = y[1] /\ x[2] = y[2] /\ x[3] < y[3]

\* the key of sort_colors: (-L, -a, -b), compared as Python compares tuples
KeyBefore(x, y) ==
    \/ -x[1] < -y[1]
    \/ -x[1] = -y[1] /\ -x[2] < -y[2]
    \/ -x[1] = -y[1] /\ -x[2] = -y[2] /\ -x[3] < -y[3]

RECURSIVE InsertSorted(_, _, _)
\* index i put behind every index that does not come after it (list.sort is
\* stable)
InsertSorted(sorted, i, labs) ==
    IF sorted = <<>> THEN <<i>>
    ELSE IF KeyBefore(labs[i], labs[sorted[1]]) THEN <<i>> \o sorted
         ELSE <<sorted[1]>> \o InsertSorted(Tail(sorted), i, labs)

RECURSIVE SortedIndices(_, _)
\* indices.sort(key=...) of the first n indices (line 60)
SortedIndices(n, labs) ==
    IF n = 0 THEN <<>>
    ELSE InsertSorted(SortedIndices(n - 1, labs), n, labs)

\* the list [colors[i] for i in indices] of the sorted indices: a new list
SortedBy(cs, labs) ==
    [i \in 1..Len(cs) |-> cs[SortedIndices(Len(cs), labs)[i]]]

sort_colors(cs) == SortedBy(cs, [i \in 1..Len(cs) |-> rgb_to_lab(cs[i])])

\* calculate_fitness / calculate_min_distance of the strategies (lines 378-384):
\* the minimum pairwise distance, inf below two indices
calculate_fitness(sel) ==
    LET pairs == {<<i, j>> \in (1..Len(sel)) \X (1..Len(sel)) : i < j}
    IN  IF pairs = {} THEN Inf
        ELSE Smallest({Dist(sel[p[1]], sel[p[2]]) : p \in pairs})

----------------------------------------------------------------------------
(* Leaving a strategy *)

\* raise: the call ends with the exception
Raise(exc) ==
    /\ pc' = "error"
    /\ error' = exc
    /\ st' = <<>>
    /\ UNCHANGED <<algorithm, colors, select_count, settings, lab_colors,
                   lab_distances,
                   selection, result>>

\* Faulty variant of Return: the pool itself is sorted (colors.sort(...)) before
\* the selected colors are
ReturnSortingPool(best) ==
    IF \E i \in 1..Len(best) : best[i] >= Len(colors)
    THEN Raise("IndexError")
    ELSE /\ pc' = "done"
         /\ selection' = best
         /\ colors' = SortedBy(colors, lab_colors)
         /\ result' = SortedBy([i \in 1..Len(best) |-> colors[best[i] + 1]],
                                [i \in 1..Len(best) |-> lab_colors[best[i] + 1]])
         /\ st' = <<>>
         /\ UNCHANGED <<algorithm, select_count, settings, lab_colors,
                        lab_distances, error>>

\* selected_colors = [colors[i] for i in best];
\* return {'colors': sort_colors(selected_colors), ...}
\* rgb_to_lab is a pure function: the keys sort_colors computes for the selected
\* colors are the values lab_colors holds for them
Return(best) ==
    IF \E i \in 1..Len(best) : best[i] >= Len(colors)
    THEN Raise("IndexError")
    ELSE /\ pc' = "done"
         /\ selection' = best
         /\ result' = SortedBy([i \in 1..Len(best) |-> colors[best[i] + 1]],
                                [i \in 1..Len(best) |-> lab_colors[best[i] + 1]])
         /\ st' = <<>>
         /\ UNCHANGED <<algorithm, colors, select_count, settings, lab_colors,
                        lab_distances, error>>

\* the strategy goes on: only its locals change
Goto(label, locals) ==
    /\ pc' = label
    /\ st' = locals
    /\ UNCHANGED <<algorithm, colors, select_count, settings, lab_colors,
                   lab_distances,
                   selection, result, error>>

\* delta_e(lab[i], lab[j]) for all i and j (the matrix of lines 662-667)
DistanceMatrix(lab) ==
    [i \in 1..Len(lab) |-> [j \in 1..Len(lab) |-> delta_e(lab[i], lab[j])]]

\* the call of a strategy, whose first statement is
\* lab_colors = [rgb_to_lab(rgb) for rgb in colors]
Call(function) ==
    /\ pc' = function
    /\ lab_colors' = [i \in 1..Len(colors) |-> rgb_to_lab(colors[i])]
    /\ lab_distances' = DistanceMatrix(lab_colors')
    /\ UNCHANGED <<algorithm, colors, select_count, settings, st, selection,
                   result, error>>

----------------------------------------------------------------------------
(* Requests *)

\* the longest pool of the general requests
MaxPool == 3

\* every pool of 1..MaxPool palette colours, duplicates included
Pools == UNION {[1..n -> Palette] : n \in 1..MaxPool}

\* five identical points (10,10,10)
GrayPool == <<Gray, Gray, Gray, Gray, Gray>>

\* (pool, select_count): every count from 0 to one above the pool's size for
\* the palette pools, and 2 out of the five identical points
Requests ==
    UNION {{<<p, k>> : k \in 0..(Len(p) + 1)} : p \in Pools} \cup {<<GrayPool, 2>>}

\* the keys of ALGORITHMS (lines 865-876) and the function each names
ALGORITHMS ==
    [greedy              |-> "greedy_selection",
     max_sum_global      |-> "max_sum_distances_global",
     max_sum_sequential  |-> "max_sum_distances_sequential",
     simulated_annealing |-> "simulated_annealing",
     kmeans_plus_plus    |-> "kmeans_plus_plus_selection",
     genetic_algorithm   |-> "genetic_algorithm",
     particle_swarm      |-> "particle_swarm_optimization",
     ant_colony          |-> "ant_colony_optimization",
     tabu_search         |-> "tabu_search",
     exact_minimum       |-> "exact_minimum"]

\* settings whose coolingRate is 1.0: the temperature never falls
NoCooling == [initialTemp |-> 4, coolingRate |-> <<1, 1>>, minTemp |-> 1]

\* the explicit settings a request passes to its strategy; rates are pairs
\* <<numerator, denominator>>.  One request is also made with NoCooling, and
\* the request of 2 out of red, green, blue also with a population, a swarm
\* and a colony of 2
SettingsOf(alg, req) ==
    CASE alg = "simulated_annealing" ->
           {[initialTemp |-> 4, coolingRate |-> <<1, 2>>, minTemp |-> 1]}
           \cup (IF req = <<<<Red, Green>>, 1>> THEN {NoCooling} ELSE {})
      [] alg = "genetic_algorithm" ->
           {[populationSize |-> 1, generations |-> 2, mutationRate |-> <<1, 10>>]}
           \cup (IF req = <<RGBPool, 2>>
                 THEN {[populationSize |-> 2, generations |-> 2,
                        mutationRate |-> <<1, 10>>]}
                 ELSE {})
      [] alg = "particle_swarm" ->
           {[numParticles |-> 1, iterations |-> 2]}
           \cup (IF req = <<RGBPool, 2>>
                 THEN {[numParticles |-> 2, iterations |-> 2]}
                 ELSE {})
      [] alg = "ant_colony" ->
           {[numAnts |-> 1, iterations |-> 2, evaporationRate |-> <<1, 2>>,
             pheromoneImportance |-> 1, heuristicImportance |-> 2]}
           \cup (IF req = <<RGBPool, 2>>
                 THEN {[numAnts |-> 2, iterations |-> 2, evaporationRate |-> <<1, 2>>,
                        pheromoneImportance |-> 1, heuristicImportance |-> 2]}
                 ELSE {})
      [] alg = "tabu_search" ->
           {[maxIterations |-> 3, tabuTenure |-> 2]}
      [] OTHER -> {None}

Init ==
    /\ pc \in {"select_distinct_colors", "pick_distinct_colors"}
    /\ algorithm \in DOMAIN ALGORITHMS \cup {"unknown"}
    /\ \E req \in Requests :
          /\ colors = req[1]
          /\ select_count = req[2]
          /\ settings \in SettingsOf(algorithm, req)
    /\ lab_colors = <<>>
    /\ lab_distances = <<>>
    /\ st = <<>>
    /\ selection = <<>>
    /\ result = <<>>
    /\ error = None

----------------------------------------------------------------------------
(* Entry points *)

\* select_distinct_colors (lines 903-925)
select_distinct_colors ==
    /\ pc = "select_distinct_colors"
    /\ IF algorithm \notin DOMAIN ALGORITHMS
       THEN Raise("ValueError")
       ELSE IF select_count > Len(colors)
            THEN Raise("ValueError")
            ELSE Call(ALGORITHMS[algorithm])

\* pick_distinct_colors (lines 928-995) called with count and colors given:
\* the chain of comparisons of _algorithm, no check of count
pick_distinct_colors ==
    /\ pc = "pick_distinct_colors"
    /\ IF algorithm \in DOMAIN ALGORITHMS
       THEN Call(ALGORITHMS[algorithm])
       ELSE Raise("ValueError")

----------------------------------------------------------------------------
(* greedy_selection (lines 261-297) *)

\* calculate_min_distance(index) (lines 271-274)
calculate_min_distance(index, selected) ==
    IF selected = <<>> THEN Inf
    ELSE MinSeq([s \in 1..Len(selected) |-> Dist(index, selected[s])])

\* lines 276-278: the first colour is picked at random
GreedyFirst ==
    /\ pc = "greedy_selection"
    /\ \E first_idx \in 0..(Len(colors) - 1) :
          LET available == RangeList(Len(colors))
          IN  Goto("greedy_loop",
                   [selected  |-> <<available[first_idx + 1]>>,
                    available |-> RemoveAt(available, first_idx)])

\* Faulty variant of GreedyBestIdx: best_idx is never updated from its initial 0
GreedyFirstIdx(available, selected) == 0

\* lines 282-289: the position in available of the first index whose distance
\* to its nearest selected member is largest
GreedyBestIdx(available, selected) ==
    FirstBest([i \in 1..Len(available) |->
                  calculate_min_distance(available[i], selected)],
              0, 0, 0 - Inf)

\* one pass of the while loop (lines 281-291)
GreedyAdd ==
    /\ pc = "greedy_loop"
    /\ Len(st.selected) < select_count
    /\ LET best_idx == GreedyBestIdx(st.available, st.selected)
       IN  IF best_idx >= Len(st.available)
           THEN Raise("IndexError")
           ELSE Goto("greedy_loop",
                     [selected  |-> Append(st.selected, st.available[best_idx + 1]),
                      available |-> RemoveAt(st.available, best_idx)])

\* lines 293-297
GreedyReturn ==
    /\ pc = "greedy_loop"
    /\ Len(st.selected) >= select_count
    /\ Return(st.selected)

----------------------------------------------------------------------------
(* max_sum_distances_global (lines 300-323) *)

\* lines 309-313: total distance of index i to all others
TotalDistance(i) ==
    SumSeq([j \in 1..Len(colors) |-> IF i # j - 1 THEN Dist(i, j - 1) ELSE 0])

RECURSIVE SortByTotalDesc(_)
\* total_distances.sort(key=..., reverse=True): stable, largest total first
SortByTotalDesc(idxs) ==
    IF idxs = <<>> THEN <<>>
    ELSE LET pos == FirstBest([i \in 1..Len(idxs) |-> TotalDistance(idxs[i])],
                              0, 0, 0 - Inf)
         IN  <<idxs[pos + 1]>> \o SortByTotalDesc(RemoveAt(idxs, pos))

\* total_distances[:select_count]
Slice(s, n) ==
    IF n >= 0 THEN SubSeq(s, 1, Min2(n, Len(s)))
    ELSE SubSeq(s, 1, Max2(Len(s) + n, 0))

MaxSumGlobal ==
    /\ pc = "max_sum_distances_global"
    /\ Return(Slice(SortByTotalDesc(RangeList(Len(colors))), select_count))

----------------------------------------------------------------------------
(* max_sum_distances_sequential (lines 326-360) *)

\* calculate_total_distance(index) (lines 336-337)
calculate_total_distance(index, selected) ==
    SumSeq([s \in 1..Len(selected) |-> Dist(index, selected[s])])

MaxSumSeqFirst ==
    /\ pc = "max_sum_distances_sequential"
    /\ \E first_idx \in 0..(Len(colors) - 1) :
          LET available == RangeList(Len(colors))
          IN  Goto("max_sum_loop",
                   [selected  |-> <<available[first_idx + 1]>>,
                    available |-> RemoveAt(available, first_idx)])

MaxSumSeqBestIdx(available, selected) ==
    FirstBest([i \in 1..Len(available) |->
                  calculate_total_distance(available[i], selected)],
              0, 0, 0 - Inf)

MaxSumSeqAdd ==
    /\ pc = "max_sum_loop"
    /\ Len(st.selected) < select_count
    /\ LET best_idx == MaxSumSeqBestIdx(st.available, st.selected)
       IN  IF best_idx >= Len(st.available)
           THEN Raise("IndexError")
           ELSE Goto("max_sum_loop",
                     [selected  |-> Append(st.selected, st.available[best_idx + 1]),
                      available |-> RemoveAt(st.available, best_idx)])

MaxSumSeqReturn ==
    /\ pc = "max_sum_loop"
    /\ Len(st.selected) >= select_count
    /\ Return(st.selected)

----------------------------------------------------------------------------
(* simulated_annealing (lines 363-425) *)

\* line 373
max_iterations == 10000

\* lines 386-393: the initial solution is a random sample
SAInit ==
    /\ pc = "simulated_annealing"
    /\ IF select_count > Len(colors) \/ select_count < 0
       THEN Raise("ValueError")
       ELSE \E current_solution \in Samples(Len(colors), select_count) :
               Goto("sa_loop",
                    [current_solution |-> current_solution,
                     current_fitness  |-> calculate_fitness(current_solution),
                     best_solution    |-> current_solution,
                     best_fitness     |-> calculate_fitness(current_solution),
                     temperature      |-> settings.initialTemp,
                     i                |-> 0])

\* line 411: delta > 0 or random.random() < math.exp(delta / temperature).
\* inf - inf is nan, and every comparison with nan is false; exp(0) is 1.0,
\* above every random.random(); for delta < 0 both outcomes are possible
SAAccepts(neighbor_fitness, current_fitness) ==
    IF neighbor_fitness = Inf /\ current_fitness = Inf THEN {FALSE}
    ELSE IF neighbor_fitness - current_fitness >= 0 THEN {TRUE}
         ELSE {TRUE, FALSE}

\* Faulty variant of SANext: the pass neither cools (line 419) nor counts
\* (line 396)
SANextStuck(swap_index, new_index, accept) ==
    LET neighbor_solution == SetAt(st.current_solution, swap_index, new_index)
        neighbor_fitness  == calculate_fitness(neighbor_solution)
        improves          == accept /\ neighbor_fitness > st.best_fitness
    IN  [current_solution |-> IF accept THEN neighbor_solution ELSE st.current_solution,
         current_fitness  |-> IF accept THEN neighbor_fitness ELSE st.current_fitness,
         best_solution    |-> IF improves THEN neighbor_solution ELSE st.best_solution,
         best_fitness     |-> IF improves THEN neighbor_fitness ELSE st.best_fitness,
         temperature      |-> st.temperature,
         i                |-> st.i]

\* Faulty variant of SANext: the best solution follows every accepted neighbor
\* (line 415 missing)
SANextBestFollows(swap_index, new_index, accept) ==
    LET neighbor_solution == SetAt(st.current_solution, swap_index, new_index)
        neighbor_fitness  == calculate_fitness(neighbor_solution)
    IN  [current_solution |-> IF accept THEN neighbor_solution ELSE st.current_solution,
         current_fitness  |-> IF accept THEN neighbor_fitness ELSE st.current_fitness,
         best_solution    |-> IF accept THEN neighbor_solution ELSE st.best_solution,
         best_fitness     |-> IF accept THEN neighbor_fitness ELSE st.best_fitness,
         temperature      |-> (st.temperature * settings.coolingRate[1])
                                  \div settings.coolingRate[2],
         i                |-> st.i + 1]

\* the locals after one pass of the main loop that swaps position swap_index
\* for new_index and draws accept
SANext(swap_index, new_index, accept) ==
    LET neighbor_solution == SetAt(st.current_solution, swap_index, new_index)
        neighbor_fitness  == calculate_fitness(neighbor_solution)
        improves          == accept /\ neighbor_fitness > st.best_fitness
    IN  [current_solution |-> IF accept THEN neighbor_solution ELSE st.current_solution,
         current_fitness  |-> IF accept THEN neighbor_fitness ELSE st.current_fitness,
         best_solution    |-> IF improves THEN neighbor_solution ELSE st.best_solution,
         best_fitness     |-> IF improves THEN neighbor_fitness ELSE st.best_fitness,
         temperature      |-> (st.temperature * settings.coolingRate[1])
                                  \div settings.coolingRate[2],
         i                |-> st.i + 1]

\* one pass of the main loop (lines 396-419)
SAStep ==
    /\ pc = "sa_loop"
    /\ st.i < max_iterations
    /\ st.temperature > settings.minTemp
    /\ LET available_indices == NotIn(Len(colors), st.current_solution)
       IN  IF select_count - 1 < 0
           THEN Raise("ValueError")
           ELSE IF available_indices = <<>>
                THEN Raise("IndexError")
                ELSE \E swap_index \in 0..(select_count - 1),
                        new_index \in Range(available_indices) :
                       \E accept \in SAAccepts(
                              calculate_fitness(SetAt(st.current_solution,
                                                      swap_index, new_index)),
                              st.current_fitness) :
                          Goto("sa_loop", SANext(swap_index, new_index, accept))

\* lines 421-425
SAReturn ==
    /\ pc = "sa_loop"
    /\ (st.i >= max_iterations \/ st.temperature <= settings.minTemp)
    /\ Return(st.best_solution)

----------------------------------------------------------------------------
(* kmeans_plus_plus_selection (lines 428-475) *)

\* min_distance_to_centers(point, centers) (lines 436-439)
min_distance_to_centers(point, centers) ==
    IF centers = <<>> THEN Inf
    ELSE MinSeq([c \in 1..Len(centers) |-> Dist(point, centers[c])])

\* lines 446-452: squared distance to the nearest centre, 0 for a centre
KmDistances(selected) ==
    [i \in 1..Len(colors) |->
        IF (i - 1) \in Range(selected) THEN 0
        ELSE min_distance_to_centers(i - 1, selected)
                 * min_distance_to_centers(i - 1, selected)]

\* random.random() * total lies in [0, total).  One value stands for each
\* outcome of a roulette wheel over weights: 0, and the midpoint of the
\* interval of every positive weight.  The values are in half units, so the
\* wheel is run on the doubled weights.
Doubled(weights) == [i \in 1..Len(weights) |-> 2 * weights[i]]

RandomVals(weights) ==
    {0} \cup {2 * SumSeq(SubSeq(weights, 1, i - 1)) + weights[i] :
                 i \in {j \in 1..Len(weights) : weights[j] > 0}}

RECURSIVE KmWheel(_, _, _, _)
\* lines 463-467
KmWheel(random_val, selected_index, distances, selected) ==
    IF random_val > 0 /\ selected_index < Len(distances)
    THEN LET rv == IF selected_index \notin Range(selected)
                   THEN random_val - distances[selected_index + 1]
                   ELSE random_val
         IN  KmWheel(rv, IF rv > 0 THEN selected_index + 1 ELSE selected_index,
                     distances, selected)
    ELSE selected_index

\* line 442
KmFirst ==
    /\ pc = "kmeans_plus_plus_selection"
    /\ \E first \in 0..(Len(colors) - 1) :
          Goto("kmeans_loop", [selected |-> <<first>>])

\* Faulty variant of KmAdd: no uniform choice when total is 0 (lines 455-458
\* missing), the wheel runs on every pass
KmAddNoFallback ==
    /\ pc = "kmeans_loop"
    /\ Len(st.selected) < select_count
    /\ LET distances == KmDistances(st.selected)
       IN  \E random_val \in RandomVals(distances) :
              Goto("kmeans_loop",
                   [selected |-> Append(st.selected,
                        KmWheel(random_val, 0, Doubled(distances), st.selected))])

\* one pass of the while loop (lines 445-469)
KmAdd ==
    /\ pc = "kmeans_loop"
    /\ Len(st.selected) < select_count
    /\ LET distances == KmDistances(st.selected)
           total     == SumSeq(distances)
           available == NotIn(Len(colors), st.selected)
       IN  IF total = 0
           THEN IF available = <<>>
                THEN Raise("IndexError")
                ELSE \E c \in Range(available) :
                        Goto("kmeans_loop", [selected |-> Append(st.selected, c)])
           ELSE \E random_val \in RandomVals(distances) :
                   Goto("kmeans_loop",
                        [selected |-> Append(st.selected,
                             KmWheel(random_val, 0, Doubled(distances), st.selected))])

\* lines 471-475
KmReturn ==
    /\ pc = "kmeans_loop"
    /\ Len(st.selected) >= select_count
    /\ Return(st.selected)

----------------------------------------------------------------------------
(* genetic_algorithm (lines 478-560) *)

RECURSIVE SortedList(_)
\* list(set(xs)) for indices below 8: CPython keeps a small int at the slot of
\* its own value, so the set is listed in ascending order
SortedList(S) ==
    IF S = {} THEN <<>>
    ELSE LET m == CHOOSE x \in S : \A y \in S : x <= y
         IN  <<m>> \o SortedList(S \ {m})

\* max(tournament, key=lambda i: fitnesses[i]): the first entry of the
\* tournament with the largest fitness
TournamentWinner(tournament, fitnesses) ==
    tournament[FirstBest([t \in 1..Len(tournament) |-> fitnesses[tournament[t] + 1]],
                         1, 0, fitnesses[tournament[1] + 1]) + 1]

RECURSIVE Padded(_)
\* lines 539-541: every child the padding loop can end with
Padded(child) ==
    IF Len(child) >= select_count THEN {child}
    ELSE UNION {Padded(Append(child, a)) :
                   a \in Range(NotIn(Len(colors), child))}

\* whether random.random() < rate can come out as b
RateOutcome(rate, b) == IF b THEN rate[1] > 0 ELSE rate[1] < rate[2]

\* Faulty variant of Mutated: the new index is drawn from all of range(n),
\* the indices of the child included
MutatedAnyIndex(child) ==
    {child} \cup {SetAt(child, mutation_index, a) :
                     mutation_index \in 0..(select_count - 1),
                     a \in 0..(Len(colors) - 1)}

\* lines 546-550: every child the mutation can leave
Mutated(child) ==
    LET available == NotIn(Len(colors), child)
    IN  (IF RateOutcome(settings.mutationRate, FALSE) THEN {child} ELSE {})
        \cup
        (IF RateOutcome(settings.mutationRate, TRUE)
         THEN IF available = <<>> THEN {child}
              ELSE {SetAt(child, mutation_index, a) :
                       mutation_index \in 0..(select_count - 1),
                       a \in Range(available)}
         ELSE {})

\* lines 531-552: every child of the two parents for one crossover point
Children(parent1, parent2, crossover_point) ==
    LET child == SortedList(Range(SubSeq(parent1, 1, crossover_point))
                            \cup Range(SubSeq(parent2, crossover_point + 1,
                                              Len(parent2))))
    IN  UNION {Mutated(SubSeq(c, 1, select_count)) : c \in Padded(child)}

\* lines 500-507
GAInit ==
    /\ pc = "genetic_algorithm"
    /\ IF select_count > Len(colors) \/ select_count < 0
       THEN Raise("ValueError")
       ELSE \E population \in
                  [1..settings.populationSize -> Samples(Len(colors), select_count)] :
               Goto("ga_loop",
                    [population     |-> population,
                     best_solution  |-> population[1],
                     best_fitness   |-> calculate_fitness(population[1]),
                     generation     |-> 0,
                     new_population |-> <<>>])

\* line 512
GAFitnesses(population) ==
    [p \in 1..Len(population) |-> calculate_fitness(population[p])]

\* lines 515-518 at the start of a generation: <<best_solution, best_fitness>>.
\* fitnesses.index(max(fitnesses)) is the first largest fitness
GABest(locals, fitnesses, max_fitness_index) ==
    IF locals.new_population = <<>>
       /\ fitnesses[max_fitness_index + 1] > locals.best_fitness
    THEN <<locals.population[max_fitness_index + 1], fitnesses[max_fitness_index + 1]>>
    ELSE <<locals.best_solution, locals.best_fitness>>

\* the locals after child is appended (line 552); the last child of a
\* generation ends it (line 554)
GAAppend(locals, best, child) ==
    IF Len(locals.new_population) + 1 < settings.populationSize
    THEN [locals EXCEPT !.best_solution = best[1],
                        !.best_fitness = best[2],
                        !.new_population = Append(@, child)]
    ELSE [locals EXCEPT !.best_solution = best[1],
                        !.best_fitness = best[2],
                        !.population = Append(locals.new_population, child),
                        !.new_population = <<>>,
                        !.generation = @ + 1]

\* one pass of the while loop (lines 523-552), after the generation's
\* evaluation (lines 510-521) when it is the generation's first pass
GAChild ==
    /\ pc = "ga_loop"
    /\ st.generation < settings.generations
    /\ \E tournament1, tournament2 \in [1..3 -> 0..(settings.populationSize - 1)] :
          LET fitnesses == GAFitnesses(st.population)
              parent1 == st.population[TournamentWinner(tournament1, fitnesses) + 1]
              parent2 == st.population[TournamentWinner(tournament2, fitnesses) + 1]
          IN  IF select_count - 1 < 0
              THEN Raise("ValueError")
              ELSE \E crossover_point \in 0..(select_count - 1) :
                     \E child \in Children(parent1, parent2, crossover_point) :
                        Goto("ga_loop",
                             GAAppend(st,
                                      GABest(st, fitnesses,
                                             FirstBest(fitnesses, 1, 0, fitnesses[1])),
                                      child))

\* lines 556-560
GAReturn ==
    /\ pc = "ga_loop"
    /\ st.generation >= settings.generations
    /\ Return(st.best_solution)

----------------------------------------------------------------------------
(* particle_swarm_optimization (lines 563-639) *)

RECURSIVE Moved(_, _)
\* lines 625-633 from slot i on: every position the slot loop can leave.
\* r1 and r2 are drawn and not used; each slot is replaced with probability 0.5
\* by an index that is not in the position
Moved(position, i) ==
    IF i >= select_count THEN {position}
    ELSE LET available == NotIn(Len(colors), position)
         IN  Moved(position, i + 1)
             \cup UNION {Moved(SetAt(position, i, a), i + 1) :
                            a \in Range(available)}

RECURSIVE InitialGlobalBest(_, _, _)
\* lines 599-606: the first particle with the largest best_fitness
InitialGlobalBest(particles, p, best) ==
    IF p > Len(particles) THEN best
    ELSE IF particles[p].best_fitness > best.best_fitness
         THEN InitialGlobalBest(particles, p + 1, particles[p])
         ELSE InitialGlobalBest(particles, p + 1, best)

\* lines 587-606
PSOInit ==
    /\ pc = "particle_swarm_optimization"
    /\ IF select_count > Len(colors) \/ select_count < 0
       THEN Raise("ValueError")
       ELSE \E positions \in
                  [1..settings.numParticles -> Samples(Len(colors), select_count)] :
               LET particles ==
                       [p \in 1..settings.numParticles |->
                           [position      |-> positions[p],
                            velocity      |-> [i \in 1..select_count |-> 0],
                            best_position |-> positions[p],
                            best_fitness  |-> calculate_fitness(positions[p])]]
                   first == InitialGlobalBest(particles, 1, particles[1])
               IN  Goto("pso_loop",
                        [particles            |-> particles,
                         global_best_position |-> first.best_position,
                         global_best_fitness  |-> first.best_fitness,
                         iteration            |-> 0,
                         p                    |-> 0])

\* a faulty variant of PSOUpdate: best_position and global_best_position are
\* the particle's position itself and not a copy of it (position[:]), so that
\* the slot replacements of lines 625-633 show through them
PSOUpdateAliased(locals, particle, fitness, position) ==
    [locals EXCEPT
       !.particles[locals.p + 1] =
           [position      |-> position,
            velocity      |-> particle.velocity,
            best_position |-> IF fitness > particle.best_fitness
                              THEN position ELSE particle.best_position,
            best_fitness  |-> IF fitness > particle.best_fitness
                              THEN fitness ELSE particle.best_fitness],
       !.global_best_position =
           IF fitness > particle.best_fitness /\ fitness > locals.global_best_fitness
           THEN position ELSE @,
       !.global_best_fitness =
           IF fitness > particle.best_fitness /\ fitness > locals.global_best_fitness
           THEN fitness ELSE @,
       !.p = IF locals.p + 1 < Len(locals.particles) THEN @ + 1 ELSE 0,
       !.iteration = IF locals.p + 1 < Len(locals.particles) THEN @ ELSE @ + 1]

\* the locals after particle p is updated: lines 612-622 on its position before
\* the move, then its new position; the last particle ends the iteration
PSOUpdate(locals, particle, fitness, position) ==
    [locals EXCEPT
       !.particles[locals.p + 1] =
           [position      |-> position,
            velocity      |-> particle.velocity,
            best_position |-> IF fitness > particle.best_fitness
                              THEN particle.position ELSE particle.best_position,
            best_fitness  |-> IF fitness > particle.best_fitness
                              THEN fitness ELSE particle.best_fitness],
       !.global_best_position =
           IF fitness > particle.best_fitness /\ fitness > locals.global_best_fitness
           THEN particle.position ELSE @,
       !.global_best_fitness =
           IF fitness > particle.best_fitness /\ fitness > locals.global_best_fitness
           THEN fitness ELSE @,
       !.p = IF locals.p + 1 < Len(locals.particles) THEN @ + 1 ELSE 0,
       !.iteration = IF locals.p + 1 < Len(locals.particles) THEN @ ELSE @ + 1]

\* one pass of the inner loop (lines 610-633): particle p of this iteration
PSOParticle ==
    /\ pc = "pso_loop"
    /\ st.iteration < settings.iterations
    /\ \E position \in Moved(st.particles[st.p + 1].position, 0) :
          Goto("pso_loop",
               PSOUpdate(st, st.particles[st.p + 1],
                         calculate_fitness(st.particles[st.p + 1].position),
                         position))

\* lines 635-639
PSOReturn ==
    /\ pc = "pso_loop"
    /\ st.iteration >= settings.iterations
    /\ Return(st.global_best_position)

----------------------------------------------------------------------------
(* ant_colony_optimization (lines 642-744) *)

RECURSIVE Power(_, _)
\* x ** n for an integer n >= 0
Power(x, n) == IF n <= 0 THEN 1 ELSE x * Power(x, n - 1)

\* Pheromones are held as numerators over the common denominator PherDen, which
\* every evaporation and every deposit 1.0 / select_count divides exactly
PherDen ==
    Max2(select_count, 1) * Power(settings.evaporationRate[2], settings.iterations)

RECURSIVE AcoWheel(_, _, _)
\* lines 703-706
AcoWheel(random_val, selected_index, probabilities) ==
    IF random_val > 0 /\ selected_index < Len(probabilities)
    THEN LET rv == random_val - probabilities[selected_index + 1]
         IN  AcoWheel(rv, IF rv > 0 THEN selected_index + 1 ELSE selected_index,
                      probabilities)
    ELSE selected_index

\* lines 688-693: the weight of every available index.  The common factor
\* PherDen ** alpha of all weights does not change the wheel's outcome
AcoProbabilities(solution, available, pheromones) ==
    [a \in 1..Len(available) |->
        LET i         == available[a]
            pheromone == Power(pheromones[i + 1], settings.pheromoneImportance)
            min_dist  == IF solution # <<>>
                         THEN MinSeq([j \in 1..Len(solution) |-> Dist(i, solution[j])])
                         ELSE 1
            heuristic == Power(min_dist, settings.heuristicImportance)
        IN  pheromone * heuristic]

\* available.remove(x)
RemoveValue(s, x) == SelectSeq(s, LAMBDA y : y # x)

RECURSIVE Tours(_, _, _)
\* lines 686-711: every solution the while loop can end with
Tours(solution, available, pheromones) ==
    IF Len(solution) < select_count /\ available # <<>>
    THEN LET probabilities == AcoProbabilities(solution, available, pheromones)
             total         == SumSeq(probabilities)
             picks ==
                 IF total = 0 THEN Range(available)
                 ELSE {available[Min2(AcoWheel(random_val, 0, Doubled(probabilities)),
                                      Len(available) - 1) + 1] :
                          random_val \in RandomVals(probabilities)}
         IN  UNION {Tours(Append(solution, selected_index),
                          RemoveValue(available, selected_index), pheromones) :
                       selected_index \in picks}
    ELSE {solution}

\* lines 659-670
AcoInit ==
    /\ pc = "ant_colony_optimization"
    /\ Goto("aco_loop",
            [pheromones    |-> [i \in 1..Len(colors) |-> PherDen],
             best_solution |-> NoList,
             best_fitness  |-> 0 - Inf,
             iteration     |-> 0,
             solutions     |-> <<>>])

RECURSIVE AcoBest(_, _, _)
\* lines 716-724 from solution s on: the best complete solution and its fitness
AcoBest(solutions, s, best) ==
    IF s > Len(solutions) THEN best
    ELSE IF Len(solutions[s]) = select_count
            /\ calculate_fitness(solutions[s]) > best[2]
         THEN AcoBest(solutions, s + 1,
                      <<solutions[s], calculate_fitness(solutions[s])>>)
         ELSE AcoBest(solutions, s + 1, best)

\* Faulty variant of AcoPheromones: the deposits are added before the
\* evaporation, which then shrinks them too
AcoDepositFirst(pheromones, solutions) ==
    [i \in 1..Len(pheromones) |->
        ((pheromones[i]
          + Cardinality({s \in 1..Len(solutions) :
                            /\ Len(solutions[s]) = select_count
                            /\ (i - 1) \in Range(solutions[s])})
                * (PherDen \div Max2(select_count, 1)))
         * (settings.evaporationRate[2] - settings.evaporationRate[1]))
            \div settings.evaporationRate[2]]

\* lines 727-735: evaporation of every entry, then one deposit of
\* 1.0 / len(solution) per complete solution on each of its indices
AcoPheromones(pheromones, solutions) ==
    [i \in 1..Len(pheromones) |->
        (pheromones[i] * (settings.evaporationRate[2] - settings.evaporationRate[1]))
            \div settings.evaporationRate[2]
        + Cardinality({s \in 1..Len(solutions) :
                          /\ Len(solutions[s]) = select_count
                          /\ (i - 1) \in Range(solutions[s])})
              * (PherDen \div Max2(select_count, 1))]

\* the end of an iteration, all ants done (lines 715-735).  min() of no pair
\* (line 718) is a ValueError
AcoUpdate(solutions, best) ==
    IF \E s \in 1..Len(solutions) :
          Len(solutions[s]) = select_count /\ Len(solutions[s]) < 2
    THEN Raise("ValueError")
    ELSE Goto("aco_loop",
              [pheromones    |-> AcoPheromones(st.pheromones, solutions),
               best_solution |-> best[1],
               best_fitness  |-> best[2],
               iteration     |-> st.iteration + 1,
               solutions     |-> <<>>])

\* one ant constructs a solution (lines 677-713); the last ant of an iteration
\* ends it
AcoAnt ==
    /\ pc = "aco_loop"
    /\ st.iteration < settings.iterations
    /\ \E first_index \in 0..(Len(colors) - 1) :
          \E solution \in Tours(<<RangeList(Len(colors))[first_index + 1]>>,
                                RemoveAt(RangeList(Len(colors)), first_index),
                                st.pheromones) :
             IF Len(st.solutions) + 1 < settings.numAnts
             THEN Goto("aco_loop", [st EXCEPT !.solutions = Append(@, solution)])
             ELSE AcoUpdate(Append(st.solutions, solution),
                            AcoBest(Append(st.solutions, solution), 1,
                                    <<st.best_solution, st.best_fitness>>))

\* lines 737-744
AcoReturn ==
    /\ pc = "aco_loop"
    /\ st.iteration >= settings.iterations
    /\ IF st.best_solution # NoList
       THEN Return(st.best_solution)
       ELSE IF select_count > Len(colors) \/ select_count < 0
            THEN Raise("ValueError")
            ELSE \E sample \in Samples(Len(colors), select_count) : Return(sample)

----------------------------------------------------------------------------
(* tabu_search (lines 747-826) *)

\* get_move_key(old_color, new_color) (lines 776-777)
get_move_key(old_color, new_color) == <<old_color, new_color>>

\* lines 784-786: the moves (i, j) in the order the two loops visit them
TabuMoves(current) ==
    SelectSeq([m \in 1..(select_count * Len(colors)) |->
                  <<(m - 1) \div Len(colors), (m - 1) % Len(colors)>>],
              LAMBDA m : m[2] \notin Range(current))

\* lines 795-797
TabuTakes(fitness, move_key, best_neighbor_fitness, best_fitness, tabu_list, iteration) ==
    \/ /\ fitness > best_neighbor_fitness
       /\ (move_key \notin DOMAIN tabu_list \/ tabu_list[move_key] <= iteration)
    \/ fitness > best_fitness

RECURSIVE TabuScan(_, _, _, _)
\* lines 784-799 from move m on: <<best_neighbor_solution, best_neighbor_fitness>>
TabuScan(locals, moves, m, best_neighbor) ==
    IF m > Len(moves) THEN best_neighbor
    ELSE LET i        == moves[m][1]
             j        == moves[m][2]
             move_key == get_move_key(locals.current[i + 1], j)
             neighbor == SetAt(locals.current, i, j)
             fitness  == calculate_fitness(neighbor)
         IN  IF TabuTakes(fitness, move_key, best_neighbor[2], locals.best_fitness,
                          locals.tabu_list, locals.iteration)
             THEN TabuScan(locals, moves, m + 1, <<neighbor, fitness>>)
             ELSE TabuScan(locals, moves, m + 1, best_neighbor)

\* lines 812-820: the new entries, then the entries that have expired removed
TabuListAfter(tabu_list, current, best, iteration) ==
    LET keys    == {get_move_key(current[i], best[i]) : i \in 1..select_count}
        updated == [k \in DOMAIN tabu_list \cup keys |->
                       IF k \in keys THEN iteration + settings.tabuTenure
                       ELSE tabu_list[k]]
    IN  [k \in {x \in DOMAIN updated : updated[x] > iteration} |-> updated[k]]

\* lines 768-774.  calculate_fitness reads lab_colors at every index of best
TabuInit ==
    /\ pc = "tabu_search"
    /\ LET current == RangeList(select_count)
       IN  IF Len(current) >= 2 /\ \E i \in Range(current) : i >= Len(colors)
           THEN Raise("IndexError")
           ELSE Goto("tabu_loop",
                     [current      |-> current,
                      best         |-> current,
                      best_fitness |-> calculate_fitness(current),
                      tabu_list    |-> <<>>,
                      iteration    |-> 0])

\* lines 801-820 for the neighbor the scan has found; no neighbor is the break
TabuMove(locals, best_neighbor, best) ==
    IF best_neighbor[1] = NoList
    THEN Return(locals.best)
    ELSE Goto("tabu_loop",
              [current      |-> best_neighbor[1],
               best         |-> best,
               best_fitness |-> Max2(best_neighbor[2], locals.best_fitness),
               tabu_list    |-> TabuListAfter(locals.tabu_list, best_neighbor[1],
                                              best, locals.iteration),
               iteration    |-> locals.iteration + 1])

\* lines 808-810
TabuBest(locals, best_neighbor) ==
    IF best_neighbor[2] > locals.best_fitness THEN best_neighbor[1] ELSE locals.best

\* lines 801-820
TabuApply(locals, best_neighbor) ==
    TabuMove(locals, best_neighbor, TabuBest(locals, best_neighbor))

\* one pass of the main loop (lines 779-820)
TabuIterate ==
    /\ pc = "tabu_loop"
    /\ st.iteration < settings.maxIterations
    /\ TabuApply(st, TabuScan(st, TabuMoves(st.current), 1, <<NoList, 0 - Inf>>))

\* lines 822-826
TabuReturn ==
    /\ pc = "tabu_loop"
    /\ st.iteration >= settings.maxIterations
    /\ Return(st.best)

----------------------------------------------------------------------------
(* exact_minimum (lines 829-861) *)

RECURSIVE Combinations(_, _, _)
\* itertools.combinations(range(lo, n), k): the increasing lists, in
\* lexicographic order
Combinations(lo, n, k) ==
    IF k = 0 THEN << <<>> >>
    ELSE IF lo >= n THEN <<>>
         ELSE LET with    == Combinations(lo + 1, n, k - 1)
                  without == Combinations(lo + 1, n, k)
              IN  [c \in 1..Len(with) |-> <<lo>> \o with[c]] \o without

\* Faulty variant of ExactBest: the first combination is kept, none compared
ExactFirst(combos) == IF combos = <<>> THEN NoList ELSE combos[1]

\* lines 846-855: the first combination with the largest minimum distance,
\* None when there is no combination
ExactBest(combos) ==
    IF combos = <<>> THEN NoList
    ELSE combos[FirstBest([c \in 1..Len(combos) |-> calculate_fitness(combos[c])],
                          0, 0, 0 - Inf) + 1]

\* the whole function; iterating None (line 857) is a TypeError
ExactMinimum ==
    /\ pc = "exact_minimum"
    /\ LET best_selection ==
               ExactBest(Combinations(0, Len(colors), select_count))
       IN  IF best_selection = NoList
           THEN Raise("TypeError")
           ELSE Return(best_selection)

----------------------------------------------------------------------------
(* The parsing of colors: hex_to_rgb, parse_color_string, parse_color_list *)
(* (lines 147-258).  A text is a string; its characters are counted from 1. *)
(* A parse that can fail yields <<>> for the exception and <<value>> for a  *)
(* value.                                                                  *)

\* the character of s at position p
Ch(s, p) == SubSeq(s, p, p)

\* the characters str.strip() removes
Whitespace == {" ", "\n", "\t"}

HexDigits == "0123456789abcdef"

Uppers == "ABCDEFGHIJKLMNOPQRSTUVWXYZ"

Lowers == "abcdefghijklmnopqrstuvwxyz"

\* str.lower() of one character
LowerCh(c) ==
    IF \E i \in 1..Len(Uppers) : Ch(Uppers, i) = c
    THEN Ch(Lowers, CHOOSE i \in 1..Len(Uppers) : Ch(Uppers, i) = c)
    ELSE c

RECURSIVE Lower(_)
\* str.lower()
Lower(s) == IF Len(s) = 0 THEN "" ELSE LowerCh(Head(s)) \o Lower(Tail(s))

RECURSIVE LStrip(_, _)
\* str.lstrip(chars)
LStrip(s, chars) ==
    IF Len(s) > 0 /\ Head(s) \in chars THEN LStrip(Tail(s), chars) ELSE s

RECURSIVE RStrip(_, _)
\* str.rstrip(chars)
RStrip(s, chars) ==
    IF Len(s) > 0 /\ Ch(s, Len(s)) \in chars
    THEN RStrip(SubSeq(s, 1, Len(s) - 1), chars)
    ELSE s

\* str.strip()
Strip(s) == RStrip(LStrip(s, Whitespace), Whitespace)

\* s.startswith(prefix)
StartsWith(s, prefix) ==
    Len(s) >= Len(prefix) /\ SubSeq(s, 1, Len(prefix)) = prefix

\* s.endswith(suffix)
EndsWith(s, suffix) ==
    Len(s) >= Len(suffix) /\ SubSeq(s, Len(s) - Len(suffix) + 1, Len(s)) = suffix

\* c in s, for a character c
Contains(s, c) == \E i \in 1..Len(s) : Ch(s, i) = c

RECURSIVE Split(_, _, _)
\* s.split(sep) for a separator of one character; piece is the part of the
\* current field read so far
Split(s, sep, piece) ==
    IF Len(s) = 0 THEN <<piece>>
    ELSE IF Head(s) = sep THEN <<piece>> \o Split(Tail(s), sep, "")
         ELSE Split(Tail(s), sep, piece \o Head(s))

\* the value of a digit of the base, upper or lower case
DigitValue(c) == (CHOOSE i \in 1..Len(HexDigits) : Ch(HexDigits, i) = LowerCh(c)) - 1

IsDigit(c, base) ==
    \E i \in 1..base : Ch(HexDigits, i) = LowerCh(c)

RECURSIVE DigitsValue(_, _, _)
\* the number the digits of s write in the base, after the digits of value acc
DigitsValue(s, base, acc) ==
    IF Len(s) = 0 THEN acc
    ELSE DigitsValue(Tail(s), base, acc * base + DigitValue(Head(s)))

\* int(v, base): white space around, a sign, then one digit at least; <<>>
\* for the ValueError of anything else
PyInt(v, base) ==
    LET stripped == Strip(v)
        signed   == Len(stripped) > 0 /\ Head(stripped) \in {"-", "+"}
        digits   == IF signed THEN Tail(stripped) ELSE stripped
    IN  IF Len(digits) = 0 \/ \E i \in 1..Len(digits) : ~IsDigit(Ch(digits, i), base)
        THEN <<>>
        ELSE IF signed /\ Head(stripped) = "-"
             THEN <<0 - DigitsValue(digits, base, 0)>>
             ELSE <<DigitsValue(digits, base, 0)>>

\* tuple(int(v...) for v in values) for three values: <<>> when an int() raises
IntTuple(values, base) ==
    IF \E i \in 1..3 : PyInt(values[i], base) = <<>>
    THEN <<>>
    ELSE << <<PyInt(values[1], base)[1], PyInt(values[2], base)[1],
              PyInt(values[3], base)[1]>> >>

\* hex_to_rgb (lines 147-156)
hex_to_rgb(hex_color) ==
    LET hex == LStrip(hex_color, {"#"})
    IN  IF Len(hex) # 6 THEN <<>>
        ELSE IntTuple(<<SubSeq(hex, 1, 2), SubSeq(hex, 3, 4), SubSeq(hex, 5, 6)>>, 16)

\* all(0 <= c <= 255 for c in rgb_tuple)
InByteRange(rgb_tuple) == \A i \in 1..3 : 0 <= rgb_tuple[i] /\ rgb_tuple[i] <= 255

\* lines 182-189 and 194-201: the three values of a split, if they are three
\* integers in 0..255; <<>> to go on
RangedTuple(rgb_values) ==
    IF Len(rgb_values) # 3 THEN <<>>
    ELSE LET rgb_tuple == IntTuple(rgb_values, 10)
         IN  IF rgb_tuple # <<>> /\ InByteRange(rgb_tuple[1]) THEN rgb_tuple ELSE <<>>

\* lines 192-201 for one separator
Separated(color_str, separator) ==
    IF Contains(color_str, separator)
    THEN RangedTuple(Split(color_str, separator, ""))
    ELSE <<>>

\* parse_color_string (lines 164-203)
parse_color_string(text) ==
    LET color_str == Strip(text)
    IN  IF StartsWith(color_str, "#")
           \/ (Len(color_str) = 6
               /\ \A i \in 1..6 : IsDigit(Ch(color_str, i), 16))
        THEN hex_to_rgb(color_str)
        ELSE IF StartsWith(Lower(color_str), "rgb(") /\ EndsWith(color_str, ")")
                /\ RangedTuple(Split(SubSeq(color_str, 5, Len(color_str) - 1),
                                     ",", "")) # <<>>
             THEN RangedTuple(Split(SubSeq(color_str, 5, Len(color_str) - 1), ",", ""))
             ELSE IF Separated(color_str, ",") # <<>>
                  THEN Separated(color_str, ",")
                  ELSE Separated(color_str, " ")

RECURSIVE SkipWs(_, _)
\* the first position from p on that holds no white space
SkipWs(s, p) ==
    IF p <= Len(s) /\ Ch(s, p) \in Whitespace THEN SkipWs(s, p + 1) ELSE p

RECURSIVE DigitsEnd(_, _)
\* the position behind the decimal digits that start at p
DigitsEnd(s, p) ==
    IF p <= Len(s) /\ IsDigit(Ch(s, p), 10) THEN DigitsEnd(s, p + 1) ELSE p

\* a JSON number without fraction and exponent at p: <<<<"int", n>>, next>>
JsonNumber(s, p) ==
    LET d == IF p <= Len(s) /\ Ch(s, p) = "-" THEN p + 1 ELSE p
        e == IF d <= Len(s) /\ Ch(s, d) = "0" THEN d + 1 ELSE DigitsEnd(s, d)
    IN  IF e = d THEN <<>>
        ELSE << <<"int", PyInt(SubSeq(s, p, e - 1), 10)[1]>>, e >>

RECURSIVE JsonValue(_, _)
RECURSIVE JsonItems(_, _, _)
\* json.loads on the texts made of arrays, integers and white space: the value
\* at p, <<<<"list", items>>, next>> for an array, <<>> for JSONDecodeError
JsonValue(s, p) ==
    LET q == SkipWs(s, p)
    IN  IF q > Len(s) THEN <<>>
        ELSE IF Ch(s, q) = "["
             THEN IF SkipWs(s, q + 1) <= Len(s) /\ Ch(s, SkipWs(s, q + 1)) = "]"
                  THEN << <<"list", <<>> >>, SkipWs(s, q + 1) + 1 >>
                  ELSE JsonItems(s, q + 1, <<>>)
             ELSE JsonNumber(s, q)

\* the items of an array from p on, behind the items read so far
JsonItems(s, p, items) ==
    LET v == JsonValue(s, p)
        r == IF v = <<>> THEN 0 ELSE SkipWs(s, v[2])
    IN  IF v = <<>> \/ r > Len(s) THEN <<>>
        ELSE IF Ch(s, r) = "," THEN JsonItems(s, r + 1, Append(items, v[1]))
             ELSE IF Ch(s, r) = "]"
                  THEN << <<"list", Append(items, v[1])>>, r + 1 >>
                  ELSE <<>>

\* json.loads(color_text): <<value>>, or <<>> for JSONDecodeError
JsonLoads(s) ==
    LET v == JsonValue(s, 1)
    IN  IF v = <<>> \/ SkipWs(s, v[2]) <= Len(s) THEN <<>> ELSE <<v[1]>>

\* lines 225-227: the items that are lists of 3, as tuples of int(v), with no
\* test of the range
JsonColors(parsed) ==
    LET triples == SelectSeq(parsed[2],
                             LAMBDA item : item[1] = "list" /\ Len(item[2]) = 3)
    IN  [t \in 1..Len(triples) |->
            <<triples[t][2][1][2], triples[t][2][2][2], triples[t][2][3][2]>>]

\* int(v) of an item that is itself a list is a TypeError, which line 229 does
\* not catch
JsonTypeError(parsed) ==
    \E t \in 1..Len(parsed[2]) :
       /\ parsed[2][t][1] = "list"
       /\ Len(parsed[2][t][2]) = 3
       /\ \E v \in 1..3 : parsed[2][t][2][v][1] = "list"

\* \[(\d+),\s*(\d+),\s*(\d+)\] matched at p: <<<<r, g, b>>, next>>, or <<>>
ArrayMatch(s, p) ==
    LET r1 == p + 1
        r2 == DigitsEnd(s, r1)
        g1 == SkipWs(s, r2 + 1)
        g2 == DigitsEnd(s, g1)
        b1 == SkipWs(s, g2 + 1)
        b2 == DigitsEnd(s, b1)
    IN  IF /\ p <= Len(s) /\ Ch(s, p) = "["
           /\ r2 > r1 /\ r2 <= Len(s) /\ Ch(s, r2) = ","
           /\ g2 > g1 /\ g2 <= Len(s) /\ Ch(s, g2) = ","
           /\ b2 > b1 /\ b2 <= Len(s) /\ Ch(s, b2) = "]"
        THEN << <<DigitsValue(SubSeq(s, r1, r2 - 1), 10, 0),
                  DigitsValue(SubSeq(s, g1, g2 - 1), 10, 0),
                  DigitsValue(SubSeq(s, b1, b2 - 1), 10, 0)>>, b2 + 1 >>
        ELSE <<>>

RECURSIVE FindArrays(_, _)
\* lines 238-240: re.findall from p on, every match as a tuple of int(v), with
\* no test of the range
FindArrays(s, p) ==
    IF p > Len(s) THEN <<>>
    ELSE IF ArrayMatch(s, p) # <<>>
         THEN <<ArrayMatch(s, p)[1]>> \o FindArrays(s, ArrayMatch(s, p)[2])
         ELSE FindArrays(s, p + 1)

RECURSIVE LineColors(_)
\* lines 248-256: the color of every line that parses
LineColors(lines) ==
    IF lines = <<>> THEN <<>>
    ELSE (IF Len(Strip(lines[1])) > 0 THEN parse_color_string(Strip(lines[1]))
          ELSE <<>>)
         \o LineColors(Tail(lines))

\* parse_color_list (lines 206-258): <<colors>>, or <<>> for the TypeError
parse_color_list(text) ==
    LET color_text == Strip(text)
        bracketed  == StartsWith(color_text, "[") /\ EndsWith(color_text, "]")
        loaded     == IF bracketed THEN JsonLoads(color_text) ELSE <<>>
        matches    == IF bracketed
                      THEN FindArrays(SubSeq(color_text, 2, Len(color_text) - 1), 1)
                      ELSE <<>>
    IN  IF loaded # <<>> /\ loaded[1][1] = "list"
        THEN IF JsonTypeError(loaded[1]) THEN <<>> ELSE <<JsonColors(loaded[1])>>
        ELSE IF matches # <<>> THEN <<matches>>
             ELSE <<LineColors(Split(color_text, "\n", ""))>>

\* the channel values the texts of the model write in decimal
Channels == {0 - 1, 0, 10, 255, 256}

\* the pairs of characters the texts of the model write as hex channels
HexPairs == {"00", "0a", "FF", "-1"}

\* the texts of one color in each form, and texts of two lines
ColorTexts ==
    {"#" \o h[1] \o h[2] \o h[3] : h \in HexPairs \X HexPairs \X HexPairs}
    \cup {h[1] \o h[2] \o h[3] : h \in HexPairs \X HexPairs \X HexPairs}
    \cup UNION {{"rgb(" \o ToString(c[1]) \o "," \o ToString(c[2]) \o ","
                    \o ToString(c[3]) \o ")",
                 ToString(c[1]) \o ", " \o ToString(c[2]) \o ", " \o ToString(c[3]),
                 ToString(c[1]) \o " " \o ToString(c[2]) \o " " \o ToString(c[3]),
                 "[[" \o ToString(c[1]) \o "," \o ToString(c[2]) \o ", "
                    \o ToString(c[3]) \o "]]",
                 "[[" \o ToString(c[1]) \o "," \o ToString(c[2]) \o ", "
                    \o ToString(c[3]) \o "],]",
                 " #0a0a0a\n\nRGB(" \o ToString(c[1]) \o ", " \o ToString(c[2])
                    \o "," \o ToString(c[3]) \o ")\n"} :
                   c \in Channels \X Channels \X Channels}

\* a call of one of the two parsers on a text
ParseInit ==
    /\ pc \in {"parse_color_string", "parse_color_list"}
    /\ \E color_text \in ColorTexts :
          st = [function |-> pc, color_text |-> color_text]
    /\ algorithm = None
    /\ colors = <<>>
    /\ select_count = 0
    /\ settings = None
    /\ lab_colors = <<>>
    /\ lab_distances = <<>>
    /\ selection = <<>>
    /\ result = <<>>
    /\ error = None

\* the parser returns: the text stays with the caller
Parsed(value) ==
    /\ pc' = "done"
    /\ result' = value
    /\ UNCHANGED <<algorithm, colors, select_count, settings, lab_colors,
                   lab_distances, st, selection, error>>

\* the parser raises
ParseRaise(exc) ==
    /\ pc' = "error"
    /\ error' = exc
    /\ UNCHANGED <<algorithm, colors, select_count, settings, lab_colors,
                   lab_distances, st, selection, result>>

\* a call of parse_color_string: the color, or the ValueError of line 203
ParseColorString ==
    /\ pc = "parse_color_string"
    /\ IF parse_color_string(st.color_text) = <<>>
       THEN ParseRaise("ValueError")
       ELSE Parsed(parse_color_string(st.color_text)[1])

\* a call of parse_color_list
ParseColorList ==
    /\ pc = "parse_color_list"
    /\ IF parse_color_list(st.color_text) = <<>>
       THEN ParseRaise("TypeError")
       ELSE Parsed(parse_color_list(st.color_text)[1])

ParseNext == ParseColorString \/ ParseColorList

----------------------------------------------------------------------------
(* The calls without a pool: generate_n_colors (lines 879-900) and          *)
(* pick_distinct_colors with neither colors nor pool_size (lines 969-973)    *)

\* the largest count of the calls without a pool
MaxCount == 22

\* generate_random_colors(count) (lines 91-93): count draws of random_color().
\* The pools of the model repeat one color of the palette
generate_random_colors(count) ==
    {[i \in 1..Max2(count, 0) |-> c] : c \in Palette}

\* line 896
GeneratedPoolSize(n) == Max2(n * 10, 20)

\* line 972, _pool_size being None: "_pool_size or min(count * 10, 20)"
PickedPoolSize(count) == Min2(count * 10, 20)

\* a call with a count and an algorithm, and no pool
PoolInit ==
    /\ pc \in {"generate_n_colors", "pick_distinct_colors"}
    /\ algorithm \in DOMAIN ALGORITHMS
    /\ select_count \in 1..MaxCount
    /\ colors = <<>>
    /\ settings = None
    /\ lab_colors = <<>>
    /\ lab_distances = <<>>
    /\ st = <<>>
    /\ selection = <<>>
    /\ result = <<>>
    /\ error = None

\* lines 896-900: the pool is generated and handed to select_distinct_colors
GenerateNColors ==
    /\ pc = "generate_n_colors"
    /\ pc' = "select_distinct_colors"
    /\ colors' \in generate_random_colors(GeneratedPoolSize(select_count))
    /\ UNCHANGED <<algorithm, select_count, settings, lab_colors, lab_distances,
                   st, selection, result, error>>

\* lines 970-973: "if not pool", the pool is generated; the call goes on as the
\* call with this pool (lines 975-994)
PickGeneratesPool ==
    /\ pc = "pick_distinct_colors"
    /\ colors = <<>>
    /\ pc' = "pick_distinct_colors"
    /\ colors' \in generate_random_colors(PickedPoolSize(select_count))
    /\ UNCHANGED <<algorithm, select_count, settings, lab_colors, lab_distances,
                   st, selection, result, error>>

PoolNext == GenerateNColors \/ PickGeneratesPool

----------------------------------------------------------------------------
(* The specification *)

Next ==
    \/ select_distinct_colors
    \/ pick_distinct_colors
    \/ GreedyFirst
    \/ GreedyAdd
    \/ GreedyReturn
    \/ MaxSumGlobal
    \/ MaxSumSeqFirst
    \/ MaxSumSeqAdd
    \/ MaxSumSeqReturn
    \/ SAInit
    \/ SAStep
    \/ SAReturn
    \/ KmFirst
    \/ KmAdd
    \/ KmReturn
    \/ GAInit
    \/ GAChild
    \/ GAReturn
    \/ PSOInit
    \/ PSOParticle
    \/ PSOReturn
    \/ AcoInit
    \/ AcoAnt
    \/ AcoReturn
    \/ TabuInit
    \/ TabuIterate
    \/ TabuReturn
    \/ ExactMinimum

Spec == Init /\ [][Next]_vars

ParseSpec == ParseInit /\ [][ParseNext]_vars

PoolSpec == PoolInit /\ [][PoolNext]_vars

----------------------------------------------------------------------------
(* Properties *)

EntryPoints == {"select_distinct_colors", "pick_distinct_colors"}

\* 1 <= k <= n: the requests the strategies are specified for
ValidCount == 1 <= select_count /\ select_count <= Len(colors)

\* pairwise distinct indices of the pool
DistinctInRange(sel) ==
    /\ \A i \in 1..Len(sel) : sel[i] \in 0..(Len(colors) - 1)
    /\ \A i, j \in 1..Len(sel) : i # j => sel[i] # sel[j]

\* the colors at the indices of sel, in the order of sel
ColorsAt(sel) == [i \in 1..Len(sel) |-> colors[sel[i] + 1]]

\* how often color c occurs in the list cs
Count(cs, c) == Cardinality({i \in 1..Len(cs) : cs[i] = c})

\* the Lab coordinates of a color of the pool
LabIn(c) == lab_colors[CHOOSE j \in 1..Len(colors) : colors[j] = c]

\* x is not behind y in the order L descending, then a, then b
LexGE(x, y) ==
    \/ x[1] > y[1]
    \/ x[1] = y[1] /\ x[2] > y[2]
    \/ x[1] = y[1] /\ x[2] = y[2] /\ x[3] >= y[3]

Largest(S) == CHOOSE m \in S : \A x \in S : m >= x

\* the minimum pairwise distance of a set of at least two indices
SetFitness(S) == Smallest({Dist(i, j) : <<i, j>> \in {q \in S \X S : q[1] < q[2]}})

\* the largest minimum pairwise distance over all sets of k indices of the pool
Optimum ==
    Largest({SetFitness(S) : S \in {T \in SUBSET (0..(Len(colors) - 1)) :
                                       Cardinality(T) = select_count}})

\* C1: a strategy that returns on a request with 1 <= k <= n returns exactly k
\* points, the pool entries at k pairwise distinct indices in 0..n-1
C1_DistinctSelection ==
    (pc = "done" /\ ValidCount) =>
        /\ Len(selection) = select_count
        /\ Len(result) = select_count
        /\ DistinctInRange(selection)

\* k-means++ has returned index 0 twice for k = 2
C1_Witness ==
    /\ pc = "done"
    /\ algorithm = "kmeans_plus_plus"
    /\ colors = <<Blue, Green>>
    /\ select_count = 2
    /\ selection = <<0, 0>>

\* C2: a request with k > n or k <= 0 never gets past an entry point: it is
\* still there, or it has ended in ValueError with no strategy code run
C2_InvalidCountRejected ==
    (select_count > Len(colors) \/ select_count <= 0) =>
        \/ pc \in EntryPoints
        \/ pc = "error" /\ error = "ValueError" /\ lab_colors = <<>>

\* a request with k = 0 has run greedy_selection, which has returned a color
C2_Witness ==
    /\ pc = "done"
    /\ algorithm = "greedy"
    /\ select_count = 0
    /\ Len(result) = 1

\* C3: with 2 <= k <= n, exact_minimum returns a selection whose minimum
\* pairwise distance is the largest one of all k-combinations, and no other
\* strategy returns a selection with a larger one
C3_ExactIsOptimal ==
    (pc = "done" /\ 2 <= select_count /\ select_count <= Len(colors)) =>
        /\ calculate_fitness(selection) <= Optimum
        /\ algorithm = "exact_minimum" =>
              /\ DistinctInRange(selection)
              /\ calculate_fitness(selection) = Optimum

C3_Witness ==
    /\ pc = "done"
    /\ algorithm = "exact_minimum"
    /\ colors = RGBPool
    /\ select_count = 2
    /\ selection = <<1, 2>>

\* C4: no strategy ends in an error on a request with 1 <= k <= n
C4_Total ==
    (algorithm \in DOMAIN ALGORITHMS /\ ValidCount) => pc # "error"

\* simulated annealing with k = n has no index to swap in: random.choice of
\* an empty list
C4_Witness ==
    /\ pc = "error"
    /\ error = "IndexError"
    /\ algorithm = "simulated_annealing"
    /\ select_count = Len(colors)
    /\ select_count >= 1

RECURSIVE Coolings(_)
\* the passes after which a falling temperature is at most minTemp
Coolings(temperature) ==
    IF temperature <= settings.minTemp THEN 0
    ELSE 1 + Coolings((temperature * settings.coolingRate[1])
                          \div settings.coolingRate[2])

\* the passes the main loop of simulated_annealing has left at most
SAPassesLeft ==
    IF settings.coolingRate[1] >= settings.coolingRate[2]
    THEN Max2(max_iterations - st.i, 0)
    ELSE Min2(Max2(max_iterations - st.i, 0), Coolings(st.temperature))

\* a bound on the steps a run still takes: one per index to add, per pass of
\* simulated annealing, per child, particle or ant of the iterations to come,
\* per iteration of tabu search, and one for the return
StepsLeft ==
    CASE pc \in {"done", "error"} -> 0
      [] pc \in {"greedy_loop", "max_sum_loop", "kmeans_loop"} ->
           Max2(select_count - Len(st.selected), 0) + 1
      [] pc = "sa_loop" -> SAPassesLeft + 1
      [] pc = "ga_loop" ->
           Max2(settings.generations - st.generation, 0) * settings.populationSize
           - Len(st.new_population) + 1
      [] pc = "pso_loop" ->
           Max2(settings.iterations - st.iteration, 0) * settings.numParticles
           - st.p + 1
      [] pc = "aco_loop" ->
           Max2(settings.iterations - st.iteration, 0) * settings.numAnts
           - Len(st.solutions) + 1
      [] pc = "tabu_loop" -> Max2(settings.maxIterations - st.iteration, 0) + 1
      [] pc \in EntryPoints -> max_iterations + 3
      [] OTHER -> max_iterations + 2

\* C5: every run finishes: each step of a run lowers the bound StepsLeft on
\* the steps that remain, which is a natural number (10001 at most inside
\* simulated annealing, whose temperature may never fall)
C5_Terminates == [][StepsLeft' < StepsLeft /\ StepsLeft' >= 0]_vars

C5_Witness ==
    /\ pc = "done"
    /\ algorithm = "simulated_annealing"
    /\ settings = NoCooling

\* C6: the returned colors are the selected points, each as often as it was
\* selected, in the order L descending, then a descending, then b descending
C6_ResultIsSortedSelection ==
    pc = "done" =>
        /\ Len(result) = Len(selection)
        /\ \A c \in Range(colors) : Count(result, c) = Count(ColorsAt(selection), c)
        /\ \A i \in 1..(Len(result) - 1) :
              LexGE(LabIn(result[i]), LabIn(result[i + 1]))

C6_Witness ==
    /\ pc = "done"
    /\ Len(selection) = 3
    /\ DistinctInRange(selection)
    /\ ColorsAt(selection) = <<Blue, Red, Green>>
    /\ result = <<Green, Red, Blue>>

\* C8: no step of a call changes the caller's pool
C8_PoolReadOnly == [][colors' = colors]_vars

C8_Witness ==
    /\ pc = "done"
    /\ colors = <<Blue, Green, Red>>
    /\ result = <<Green, Red, Blue>>

\* C9: on the pool of 5 points (10,10,10) with k = 2 every strategy ends
\* without error with 2 points at distinct indices, at distance 0; the weights
\* k-means++ and an ant choose by sum to 0, which is their uniform choice
C9_IdenticalPoints ==
    (colors = GrayPool /\ select_count = 2 /\ algorithm \in DOMAIN ALGORITHMS) =>
        /\ pc # "error"
        /\ pc = "done" =>
              /\ Len(selection) = 2
              /\ DistinctInRange(selection)
              /\ calculate_fitness(selection) = 0
              /\ result = <<Gray, Gray>>
        /\ pc = "kmeans_loop" =>
              /\ SumSeq(KmDistances(st.selected)) = 0
              /\ DistinctInRange(st.selected)
        /\ pc = "aco_loop" =>
              \A first \in 0..(Len(colors) - 1) :
                 SumSeq(AcoProbabilities(<<first>>,
                                         RemoveAt(RangeList(Len(colors)), first),
                                         st.pheromones)) = 0

C9_Witness ==
    /\ pc = "done"
    /\ colors = GrayPool
    /\ algorithm = "kmeans_plus_plus"
    /\ selection = <<4, 0>>

\* the request of C10 has returned: greedy on the pool red, green, blue with
\* k = 2, whose first pick was index 0
GreedyFromRed ==
    /\ pc = "done"
    /\ algorithm = "greedy"
    /\ colors = RGBPool
    /\ select_count = 2
    /\ Len(selection) = 2
    /\ selection[1] = 0

\* C10 as stated: the distance between the two returned points is the largest
\* of the three pairwise distances of the pool
C10_LargestOfThree ==
    GreedyFromRed =>
        calculate_fitness(selection) = Largest({Dist(0, 1), Dist(0, 2), Dist(1, 2)})

\* C10: greedy_selection on the pool red, green, blue with k = 2 and first pick
\* index 0 returns index 0 and the point farthest from it: the distance between
\* the two returned points is the larger of the two distances from the first
\* point, which is below the distance between the other two
C10_FarthestFromFirst ==
    GreedyFromRed =>
        /\ DistinctInRange(selection)
        /\ calculate_fitness(selection) = Max2(Dist(0, 1), Dist(0, 2))
        /\ calculate_fitness(selection) < Dist(1, 2)

C10_Witness == GreedyFromRed /\ selection = <<0, 2>>

\* the points a parser has returned: the one of parse_color_string, the list
\* of parse_color_list
ParsedPoints ==
    IF st.function = "parse_color_string" THEN {result} ELSE Range(result)

\* C11: every point a parser returns has its three channels in 0..255
C11_ChannelsInRange ==
    pc = "done" => \A point \in ParsedPoints : InByteRange(point)

\* parse_color_list has returned the channel 256 of a bracketed array
C11_Witness ==
    /\ pc = "done"
    /\ st = [function |-> "parse_color_list", color_text |-> "[[256,0, 0]]"]
    /\ result = << <<256, 0, 0>> >>

\* the neighbors a pass of tabu_search examines from the locals, each as
\* <<move_key, fitness>>
TabuExamined(locals) ==
    {<<get_move_key(locals.current[m[1] + 1], m[2]),
       calculate_fitness(SetAt(locals.current, m[1], m[2]))>> :
        m \in Range(TabuMoves(locals.current))}

\* the move is tabu in the pass of the locals (line 796)
IsTabu(locals, move_key) ==
    move_key \in DOMAIN locals.tabu_list
    /\ locals.tabu_list[move_key] > locals.iteration

\* a pass of tabu_search that has applied a swap
TabuSwapped == pc = "tabu_loop" /\ pc' = "tabu_loop"

\* C12: in a pass of tabu_search in which no tabu swap beats the best fitness
\* found so far, the swap that becomes the current solution has a fitness that
\* is not below that of any examined swap that is not tabu
C12_BestNonTabuChosen ==
    [][(/\ TabuSwapped
        /\ \A e \in TabuExamined(st) : IsTabu(st, e[1]) => e[2] <= st.best_fitness)
       => \A e \in TabuExamined(st) :
             ~IsTabu(st, e[1]) => calculate_fitness(st'.current) >= e[2]]_vars

\* the first pass from red, green has moved to red, blue, not to blue, green
C12_Witness ==
    /\ pc = "tabu_loop"
    /\ colors = RGBPool
    /\ select_count = 2
    /\ st.iteration = 1
    /\ st.tabu_list # <<>>
    /\ st.current = <<0, 2>>
    /\ calculate_fitness(st.current) < Dist(2, 1)

\* C13: a pass t of tabu_search that has put b in the place of a has recorded
\* the swap of b back for a as tabu: the entry makes it tabu in the passes
\* t+1 .. t+tabuTenure and no longer in pass t+tabuTenure+1, and pass t+1 does
\* not choose the swap back unless it beats the best fitness found so far
C13_ReverseSwapTabu ==
    [][TabuSwapped =>
       \A i \in 1..Len(st.current) :
          st.current[i] # st'.current[i] =>
             LET reverse == get_move_key(st'.current[i], st.current[i])
                 next    == TabuScan(st', TabuMoves(st'.current), 1,
                                     <<NoList, 0 - Inf>>)
             IN  /\ reverse \in DOMAIN st'.tabu_list
                 /\ \A u \in (st.iteration + 1)..(st.iteration + settings.tabuTenure) :
                       IsTabu([st' EXCEPT !.iteration = u], reverse)
                 /\ ~IsTabu([st' EXCEPT !.iteration =
                                st.iteration + settings.tabuTenure + 1], reverse)
                 /\ (st'.iteration < settings.maxIterations /\ next[1] = st.current)
                       => next[2] > st'.best_fitness]_vars

\* tabu_search has gone from red, blue to green, blue in pass 1 and back to
\* red, blue in pass 2
C13_Witness ==
    /\ pc = "tabu_loop"
    /\ colors = RGBPool
    /\ select_count = 2
    /\ st.iteration = 3
    /\ st.current = <<0, 2>>
    /\ st.best = <<1, 2>>

\* C14: whenever the weights of k-means++ have a positive total, the index the
\* wheel appends is in 0..n-1, is not selected yet and has a positive weight
C14_WheelPicksUnselected ==
    [][(/\ pc = "kmeans_loop"
        /\ pc' = "kmeans_loop"
        /\ SumSeq(KmDistances(st.selected)) > 0)
       => LET selected_index == st'.selected[Len(st'.selected)]
          IN  /\ selected_index \in 0..(Len(colors) - 1)
              /\ selected_index \notin Range(st.selected)
              /\ KmDistances(st.selected)[selected_index + 1] > 0]_vars

\* the wheel has appended index 0, which was the first center, on the draw 0
C14_Witness ==
    /\ pc = "kmeans_loop"
    /\ colors = <<Blue, Green>>
    /\ select_count = 2
    /\ st.selected = <<0, 0>>

\* the distance from pool index i to its nearest member of selected
NearestSelected(i, selected) ==
    Smallest({Dist(i, selected[s]) : s \in 1..Len(selected)})

\* C15: every index greedy_selection adds after the first is one of the indices
\* not selected yet whose distance to its nearest selected member is largest,
\* and the lowest pool index of those
C15_GreedyAddsFarthest ==
    [][(pc = "greedy_loop" /\ pc' = "greedy_loop")
       => LET added     == st'.selected[Len(st'.selected)]
              remaining == {i \in 0..(Len(colors) - 1) : i \notin Range(st.selected)}
          IN  /\ st'.selected = Append(st.selected, added)
              /\ added \in remaining
              /\ \A i \in remaining :
                    /\ NearestSelected(i, st.selected)
                          <= NearestSelected(added, st.selected)
                    /\ NearestSelected(i, st.selected)
                          = NearestSelected(added, st.selected) => added <= i]_vars

\* from red, the two greens are equally far: the first of them was added
C15_Witness ==
    /\ pc = "greedy_loop"
    /\ colors = <<Red, Green, Green>>
    /\ select_count >= 2
    /\ st.selected = <<0, 1>>

\* the requests of C16
SAValid ==
    /\ algorithm = "simulated_annealing"
    /\ 2 <= select_count
    /\ select_count < Len(colors)

\* the neighbors of a solution: one position holds an index that was not in it
SANeighbors(solution) ==
    {SetAt(solution, i, j) :
        i \in 0..(select_count - 1),
        j \in (0..(Len(colors) - 1)) \ Range(solution)}

\* C16: in simulated annealing with 2 <= k < n the best fitness starts as the
\* fitness of the initial solution, is the fitness of the best solution, never
\* decreases, is never below the current fitness nor below the fitness of a
\* neighbor the pass can have evaluated (the accepted one, or one that the
\* draw can reject), and the best solution is the one returned
C16_BestIsBestSeen ==
    [][SAValid =>
       /\ (pc = "simulated_annealing" /\ pc' = "sa_loop") =>
             /\ st'.best_solution = st'.current_solution
             /\ st'.current_fitness = calculate_fitness(st'.current_solution)
             /\ st'.best_fitness = st'.current_fitness
       /\ (pc = "sa_loop" /\ pc' = "sa_loop") =>
             /\ st'.best_fitness >= st.best_fitness
             /\ st'.best_fitness >= st'.current_fitness
             /\ st'.best_fitness = calculate_fitness(st'.best_solution)
             /\ \A neighbor \in SANeighbors(st.current_solution) :
                   (\/ st'.current_solution = neighbor
                    \/ /\ st'.current_solution = st.current_solution
                       /\ FALSE \in SAAccepts(calculate_fitness(neighbor),
                                              st.current_fitness))
                   => calculate_fitness(neighbor) <= st'.best_fitness
       /\ (pc = "sa_loop" /\ pc' = "done") =>
             /\ selection' = st.best_solution
             /\ calculate_fitness(selection') = st.best_fitness]_vars

\* a worse neighbor was accepted: the current fitness is below the best one
C16_Witness ==
    /\ SAValid
    /\ pc = "sa_loop"
    /\ st.i = 2
    /\ st.current_fitness < st.best_fitness

\* the indices of the tours that are complete
CompleteTours(solutions) ==
    {s \in 1..Len(solutions) : Len(solutions[s]) = select_count}

\* C17: an ant that is not the last of its iteration leaves the pheromones as
\* they are; the last ant's step multiplies every entry by 1 - evaporationRate
\* and then adds 1/k for every complete tour of the iteration that holds the
\* index: the tours of the ants before, and the last ant's tour, which is
\* complete if and only if 1 <= k <= n
C17_PheromonesAfterTours ==
    [][(pc = "aco_loop" /\ pc' = "aco_loop") =>
       IF Len(st.solutions) + 1 < settings.numAnts
       THEN /\ st'.pheromones = st.pheromones
            /\ st'.iteration = st.iteration
            /\ SubSeq(st'.solutions, 1, Len(st.solutions)) = st.solutions
            /\ Len(st'.solutions) = Len(st.solutions) + 1
       ELSE /\ st'.iteration = st.iteration + 1
            /\ \E tour \in {T \in SUBSET (0..(Len(colors) - 1)) :
                               Cardinality(T) = IF ValidCount THEN select_count
                                                ELSE 0} :
                  \A i \in 0..(Len(colors) - 1) :
                     st'.pheromones[i + 1] =
                        (st.pheromones[i + 1]
                         * (settings.evaporationRate[2] - settings.evaporationRate[1]))
                            \div settings.evaporationRate[2]
                        + (Cardinality({s \in CompleteTours(st.solutions) :
                                           i \in Range(st.solutions[s])})
                           + IF i \in tour THEN 1 ELSE 0)
                          * (PherDen \div Max2(select_count, 1))]_vars

\* two ants have built their tours, both through index 0: half of the initial
\* 8/8 is left on every index, and 4/8 is added per tour
C17_Witness ==
    /\ pc = "aco_loop"
    /\ colors = RGBPool
    /\ select_count = 2
    /\ settings.numAnts = 2
    /\ st.iteration = 1
    /\ st.solutions = <<>>
    /\ st.pheromones = <<12, 8, 8>>

\* a list of exactly k pairwise distinct indices of the pool
KDistinct(sel) == Len(sel) = select_count /\ DistinctInRange(sel)

\* C18: every individual of the population and of the new population of the
\* genetic algorithm, every position of a particle and the current solution of
\* simulated annealing is a list of exactly k pairwise distinct indices in
\* 0..n-1
C18_PopulationInvariant ==
    /\ pc = "ga_loop" =>
          /\ \A p \in 1..Len(st.population) : KDistinct(st.population[p])
          /\ \A c \in 1..Len(st.new_population) : KDistinct(st.new_population[c])
    /\ pc = "pso_loop" =>
          \A p \in 1..Len(st.particles) : KDistinct(st.particles[p].position)
    /\ pc = "sa_loop" => KDistinct(st.current_solution)

\* the first child of the parents [0, 1] and [1, 0] holds index 2, which the
\* padding or the mutation has drawn
C18_Witness ==
    /\ pc = "ga_loop"
    /\ select_count = 2
    /\ st.generation = 0
    /\ st.population = << <<0, 1>>, <<1, 0>> >>
    /\ st.new_population = << <<0, 2>> >>

\* the strategies that evaluate the minimum pairwise distance of a selection
FitnessStrategies ==
    {"simulated_annealing", "genetic_algorithm", "particle_swarm", "ant_colony",
     "tabu_search", "exact_minimum"}

\* C19: with k = 1 the fitness of a selection is inf and its evaluation raises
\* nothing: no strategy that evaluates fitness ends in a ValueError, and the
\* fitness each of them holds is inf
C19_SingletonFitnessIsInf ==
    (select_count = 1 /\ Len(colors) >= 1 /\ algorithm \in FitnessStrategies) =>
        /\ ~(pc = "error" /\ error = "ValueError")
        /\ pc = "sa_loop" => st.current_fitness = Inf /\ st.best_fitness = Inf
        /\ pc = "ga_loop" => st.best_fitness = Inf
        /\ pc = "pso_loop" => st.global_best_fitness = Inf
        /\ pc = "tabu_loop" => st.best_fitness = Inf
        /\ (pc = "aco_loop" /\ st.iteration > 0) => st.best_fitness = Inf
        /\ pc = "done" => calculate_fitness(selection) = Inf

\* ant_colony_optimization with k = 1 has raised ValueError: min() of no pair
C19_Witness ==
    /\ pc = "error"
    /\ error = "ValueError"
    /\ algorithm = "ant_colony"
    /\ select_count = 1
    /\ colors = <<Red, Green>>

\* C20: the pool a call without a pool has generated holds at least as many
\* points as the call asks for
C20_PoolHoldsCount ==
    (pc \in EntryPoints /\ colors # <<>>) => Len(colors) >= select_count

\* pick_distinct_colors(21) has generated a pool of 20
C20_Witness ==
    /\ pc = "pick_distinct_colors"
    /\ select_count = 21
    /\ Len(colors) = 20

\* the stored global best of the swarm agrees with itself and with the
\* particles: its fitness is the minimum pairwise distance of its position and
\* is at least the best fitness of every particle
PSOConsistent(locals) ==
    /\ calculate_fitness(locals.global_best_position) = locals.global_best_fitness
    /\ \A p \in 1..Len(locals.particles) :
          locals.global_best_fitness >= locals.particles[p].best_fitness

\* C21: after the swarm is initialised and after every particle update the
\* global best is consistent (its fitness is the minimum pairwise distance of
\* its position and is >= the best fitness of every particle); a particle
\* update never decreases the global best fitness, and the slot replacements in
\* the particle's position leave its best_position and the global best position
\* what the update made of them: the one before or the position evaluated,
\* with the fitness stored for it, and no other particle is touched
C21_GlobalBestConsistent ==
    [][/\ pc' = "pso_loop" => PSOConsistent(st')
       /\ (pc = "pso_loop" /\ pc' = "pso_loop") =>
             LET p        == st.p + 1
                 particle == st.particles[p]
                 updated  == st'.particles[p]
             IN  /\ st'.global_best_fitness >= st.global_best_fitness
                 /\ updated.best_position
                       \in {particle.best_position, particle.position}
                 /\ updated.best_fitness >= particle.best_fitness
                 /\ calculate_fitness(updated.best_position) = updated.best_fitness
                 /\ st'.global_best_position
                       \in {st.global_best_position, particle.position}
                 /\ \A q \in 1..Len(st.particles) :
                       q # p => st'.particles[q] = st.particles[q]]_vars

\* the first of two particles has found [1, 2] (green, blue), which is the new
\* global best, and has then moved on to [0, 2]; the second particle still
\* holds [0, 1] as its best
C21_Witness ==
    /\ pc = "pso_loop"
    /\ colors = RGBPool
    /\ select_count = 2
    /\ settings.numParticles = 2
    /\ st.iteration = 1
    /\ st.p = 1
    /\ st.particles[1].position = <<0, 2>>
    /\ st.particles[1].best_position = <<1, 2>>
    /\ st.particles[2].best_position = <<0, 1>>
    /\ st.global_best_position = <<1, 2>>
    /\ st.global_best_fitness = calculate_fitness(<<1, 2>>)
    /\ st.global_best_fitness > st.particles[2].best_fitness

====
